---- MODULE Spec2Model ----
(***************************************************************************)
(* The CSS just-in-time subsetting engine of the repository:               *)
(*   - the build-time extractor, src/public/style-jit-cli.js               *)
(*   - the browser runtime, src/unnamed/part_000 (style-jit-runtime.js)    *)
(* Stylesheet text is a sequence of one-character strings; positions are   *)
(* 0-based as in the source, so the character at position j is s[j + 1].   *)
(***************************************************************************)
EXTENDS Integers, Sequences, FiniteSets, TLC

\* ------------------------------------------------------------------------
\* String primitives of the host language, as the two files use them
\* ------------------------------------------------------------------------

Letters ==
  { "a", "b", "c", "d", "e", "f", "g", "h", "i", "j", "k", "l", "m",
    "n", "o", "p", "q", "r", "s", "t", "u", "v", "w", "x", "y", "z",
    "A", "B", "C", "D", "E", "F", "G", "H", "I", "J", "K", "L", "M",
    "N", "O", "P", "Q", "R", "S", "T", "U", "V", "W", "X", "Y", "Z" }

Digits == { "0", "1", "2", "3", "4", "5", "6", "7", "8", "9" }

\* /\s/.test(c)
IsSpace(c) == c \in { " ", "\n", "\t", "\r" }

\* [a-zA-Z0-9_-]
IsClassChar(c) == c \in Letters \cup Digits \cup { "_", "-" }

MinOf(S) == CHOOSE x \in S : \A y \in S : x <= y

\* F(e), with e evaluated once however often F uses its argument
With(e, F(_)) == CHOOSE r \in { F(x) : x \in { e } } : TRUE

\* s.startsWith(pat, pos)
StartsWith(s, pat, pos) ==
  /\ pos >= 0
  /\ pos + Len(pat) <= Len(s)
  /\ \A k \in 1..Len(pat) : s[pos + k] = pat[k]

\* s.indexOf(pat, from): the first position >= from where pat occurs, or -1
IndexOf(s, pat, from) ==
  LET hits == { i \in from..(Len(s) - Len(pat)) : StartsWith(s, pat, i) }
  IN  IF hits = {} THEN -1 ELSE MinOf(hits)

\* s.slice(a, b) for 0 <= a; b is clamped to the length
Slice(s, a, b) ==
  LET e == IF b > Len(s) THEN Len(s) ELSE b
  IN  IF a >= e THEN <<>> ELSE SubSeq(s, a + 1, e)

\* s.slice(a, -1): everything from a but the last character
SliceButLast(s, a) == Slice(s, a, Len(s) - 1)

\* position of the first non-whitespace character at or after pos, or len
RECURSIVE SkipSpace(_, _)
SkipSpace(s, pos) ==
  IF pos < Len(s) /\ IsSpace(s[pos + 1]) THEN SkipSpace(s, pos + 1) ELSE pos

RECURSIVE TrimEnd(_)
TrimEnd(s) ==
  IF s # <<>> /\ IsSpace(s[Len(s)]) THEN TrimEnd(SubSeq(s, 1, Len(s) - 1)) ELSE s

\* s.trim()
Trim(s) == TrimEnd(Slice(s, SkipSpace(s, 0), Len(s)))

\* parts.join(sep)
RECURSIVE Join(_, _)
Join(parts, sep) ==
  IF parts = <<>> THEN <<>>
  ELSE IF Len(parts) = 1 THEN parts[1]
  ELSE parts[1] \o sep \o Join(Tail(parts), sep)

\* s.includes(pat)
Includes(s, pat) == IndexOf(s, pat, 0) # -1

\* the tokens of the source text
COMMENT_OPEN  == <<"/", "*">>
COMMENT_CLOSE == <<"*", "/">>
AT_IMPORT     == <<"@", "i", "m", "p", "o", "r", "t">>
AT_CHARSET    == <<"@", "c", "h", "a", "r", "s", "e", "t">>
AT_MEDIA      == <<"@", "m", "e", "d", "i", "a">>
AT_KEYFRAME   == <<"@", "k", "e", "y", "f", "r", "a", "m", "e">>
NL            == <<"\n">>

\* ------------------------------------------------------------------------
\* Block matching and class-token extraction (shared by both files)
\* ------------------------------------------------------------------------

\* the scan of extractBlock from position j at nesting depth `depth`
RECURSIVE BlockScan(_, _, _)
BlockScan(text, j, depth) ==
  IF j >= Len(text) THEN j
  ELSE IF text[j + 1] = "{" THEN BlockScan(text, j + 1, depth + 1)
  ELSE IF text[j + 1] = "}"
       THEN IF depth - 1 = 0 THEN j ELSE BlockScan(text, j + 1, depth - 1)
  ELSE BlockScan(text, j + 1, depth)

\* position of the brace closing the block opened at startIdx, or len
ExtractBlock(text, startIdx) == BlockScan(text, startIdx, 0)

\* end (exclusive) of the greedy run [a-zA-Z0-9_-]* starting at j
RECURSIVE ClassRunEnd(_, _)
ClassRunEnd(sel, j) ==
  IF j < Len(sel) /\ IsClassChar(sel[j + 1]) THEN ClassRunEnd(sel, j + 1) ELSE j

\* selector.match(/\.([a-zA-Z][a-zA-Z0-9_-]*)/g) with the leading dots
\* removed: the class names in order of occurrence, repeats kept;
\* the empty sequence stands for the null of "no match"
RECURSIVE ClassMatchesFrom(_, _)
ClassMatchesFrom(sel, j) ==
  IF j + 1 >= Len(sel) THEN <<>>
  ELSE IF sel[j + 1] = "." /\ sel[j + 2] \in Letters
       THEN LET e == ClassRunEnd(sel, j + 2)
            IN  <<Slice(sel, j + 1, e)>> \o ClassMatchesFrom(sel, e)
  ELSE ClassMatchesFrom(sel, j + 1)

ClassMatches(sel) == With(sel, LAMBDA s : ClassMatchesFrom(s, 0))

Range(f) == { f[i] : i \in DOMAIN f }

\* ------------------------------------------------------------------------
\* style-jit-cli.js: selector classification
\* ------------------------------------------------------------------------

\* the array baseElements of parseCSSRules, a function that build() does
\* not call
baseElements ==
  {
    <<"*">>,
    <<"h", "t", "m", "l">>,
    <<"b", "o", "d", "y">>,
    <<"d", "i", "v">>,
    <<"s", "e", "c", "t", "i", "o", "n">>,
    <<"m", "a", "i", "n">>,
    <<"p">>,
    <<"h", "r">>,
    <<"f", "o", "r", "m">>,
    <<"i", "n", "p", "u", "t">>,
    <<"s", "e", "l", "e", "c", "t">>,
    <<"t", "e", "x", "t", "a", "r", "e", "a">>,
    <<"l", "a", "b", "e", "l">>,
    <<"f", "i", "e", "l", "d", "s", "e", "t">>,
    <<"o", "p", "t", "i", "o", "n">>,
    <<"t", "a", "b", "l", "e">>,
    <<"t", "h", "e", "a", "d">>,
    <<"t", "b", "o", "d", "y">>,
    <<"t", "r">>,
    <<"t", "h">>,
    <<"t", "d">>,
    <<"a">>,
    <<"b", "u", "t", "t", "o", "n">>,
    <<"i">>,
    <<"i", "m", "g">>,
    <<"p", "r", "o", "g", "r", "e", "s", "s">>,
    <<":", ":", "-", "w", "e", "b", "k", "i", "t", "-", "s", "c", "r", "o", "l", "l", "b", "a", "r">>,
    <<":", ":", "-", "w", "e", "b", "k", "i", "t", "-", "s", "c", "r", "o", "l", "l", "b", "a", "r", "-", "t", "h", "u", "m", "b">>,
    <<":", ":", "-", "w", "e", "b", "k", "i", "t", "-", "s", "c", "r", "o", "l", "l", "b", "a", "r", "-", "t", "r", "a", "c", "k">>,
    <<"h", "1">>,
    <<"h", "2">>,
    <<"h", "3">>,
    <<"h", "4">>,
    <<"h", "5">>,
    <<"h", "6">>,
    <<"u", "l">>,
    <<"o", "l">>,
    <<"l", "i">>,
    <<"s", "p", "a", "n">>,
    <<"n", "a", "v">>,
    <<"h", "e", "a", "d", "e", "r">>,
    <<"f", "o", "o", "t", "e", "r">>,
    <<"a", "s", "i", "d", "e">>
  }

\* the patterns of baseElementSelectors of the form /^name$/
BaseExact ==
  {
    <<"*">>,
    <<"h", "t", "m", "l">>,
    <<"b", "o", "d", "y">>,
    <<"d", "i", "v">>,
    <<"s", "e", "c", "t", "i", "o", "n">>,
    <<"m", "a", "i", "n">>,
    <<"p">>,
    <<"h", "r">>,
    <<"f", "o", "r", "m">>,
    <<"s", "e", "l", "e", "c", "t">>,
    <<"t", "e", "x", "t", "a", "r", "e", "a">>,
    <<"l", "a", "b", "e", "l">>,
    <<"f", "i", "e", "l", "d", "s", "e", "t">>,
    <<"o", "p", "t", "i", "o", "n">>,
    <<"t", "a", "b", "l", "e">>,
    <<"t", "h", "e", "a", "d">>,
    <<"t", "b", "o", "d", "y">>,
    <<"t", "r">>,
    <<"t", "h">>,
    <<"t", "d">>,
    <<"a">>,
    <<"b", "u", "t", "t", "o", "n">>,
    <<"i">>,
    <<"i", "m", "g">>,
    <<"u", "l">>,
    <<"o", "l">>,
    <<"l", "i">>,
    <<"s", "p", "a", "n">>,
    <<"n", "a", "v">>
  }

\* the patterns of baseElementSelectors of the form /^name/
BasePrefix ==
  {
    <<"i", "n", "p", "u", "t">>,
    <<"p", "r", "o", "g", "r", "e", "s", "s">>,
    <<":", ":", "-", "w", "e", "b", "k", "i", "t">>,
    <<":", ":">>,
    <<":", "r", "o", "o", "t">>,
    <<"i", ".", "m", "a", "t", "e", "r", "i", "a", "l">>,
    <<"t", "r", ":", "n", "t", "h">>,
    <<"#", "p", "a", "g", "i", "n", "a", "t", "i", "o", "n">>,
    <<"i", "n", "p", "u", "t", "[", "t", "y", "p", "e">>,
    <<"t", "e", "x", "t", "a", "r", "e", "a", ":", "f", "o", "c", "u", "s">>
  }

\* /^h[1-6]$/
IsHeading(sel) ==
  Len(sel) = 2 /\ sel[1] = "h" /\ sel[2] \in { "1", "2", "3", "4", "5", "6" }

\* /^a,\s*button$/
IsAButton(sel) ==
  /\ StartsWith(sel, <<"a", ",">>, 0)
  /\ Slice(sel, SkipSpace(sel, 2), Len(sel)) = <<"b", "u", "t", "t", "o", "n">>

\* /^p\s+i/ and /^td\s+img/: head, at least one space, then tail
SpacedPrefix(sel, head, tail) ==
  /\ StartsWith(sel, head, 0)
  /\ SkipSpace(sel, Len(head)) > Len(head)
  /\ StartsWith(sel, tail, SkipSpace(sel, Len(head)))

\* baseElementSelectors.some(re => re.test(selector))
isBaseElement(selector) ==
  \E sel \in { selector } :
    \/ sel \in BaseExact
    \/ \E pre \in BasePrefix : StartsWith(sel, pre, 0)
    \/ IsHeading(sel)
    \/ IsAButton(sel)
    \/ SpacedPrefix(sel, <<"p">>, <<"i">>)
    \/ SpacedPrefix(sel, <<"t", "d">>, <<"i", "m", "g">>)

selectorUsesClass(selector, used) ==
  \E classNames \in { ClassMatches(selector) } :
    \E k \in DOMAIN classNames : classNames[k] \in used

\* ------------------------------------------------------------------------
\* style-jit-cli.js: build()
\* ------------------------------------------------------------------------

Seg(type, selector, raw) == [type |-> type, selector |-> selector, raw |-> raw]

\* end === -1 ? len : end + width
endPos(end, len, width) == IF end = -1 THEN len ELSE end + width

\* one iteration of the tokenizer loop "while (pos < len)", entered with
\* pos < len: the position it leaves in pos and the segment it pushes, if
\* any (stop: the iteration left through "break")
tokenizeStep(css, pos) ==
  LET len == Len(css)
      p   == SkipSpace(css, pos)
  IN  IF p >= len THEN [pos |-> p, emit |-> <<>>, stop |-> TRUE]
      ELSE IF StartsWith(css, COMMENT_OPEN, p)
        THEN LET e == endPos(IndexOf(css, COMMENT_CLOSE, p + 2), len, 2)
             IN  [pos |-> e, stop |-> FALSE,
                  emit |-> <<Seg("comment", <<>>, Slice(css, p, e))>>]
      ELSE IF StartsWith(css, AT_IMPORT, p)
        THEN LET e == endPos(IndexOf(css, <<";">>, p), len, 1)
             IN  [pos |-> e, stop |-> FALSE,
                  emit |-> <<Seg("import", <<>>, Slice(css, p, e))>>]
      ELSE LET braceStart == IndexOf(css, <<"{">>, p)
           IN  IF braceStart = -1
                 THEN [pos |-> len, emit |-> <<>>, stop |-> FALSE]
               ELSE LET braceEnd == ExtractBlock(css, braceStart)
                        raw      == Slice(css, p, braceEnd + 1)
                    IN  [pos  |-> braceEnd + 1, stop |-> FALSE,
                         emit |->
                           IF css[p + 1] = "@"
                             THEN <<Seg("at-rule", <<>>, raw)>>
                             ELSE <<Seg("rule",
                                        Trim(Slice(css, p, braceStart)),
                                        raw)>>]

\* the segments pushed by the tokenizer loop from position pos on
RECURSIVE tokenizeFrom(_, _)
tokenizeFrom(css, pos) ==
  IF pos >= Len(css) THEN <<>>
  ELSE With(tokenizeStep(css, pos), LAMBDA st :
         st.emit \o (IF st.stop THEN <<>> ELSE tokenizeFrom(css, st.pos)))

tokenize(css) == tokenizeFrom(css, 0)

\* a retention test that, like the runtime parser, also keeps every rule
\* whose selector has no class token
shouldKeepClassless(seg, used) ==
  \/ seg.type # "rule"
  \/ isBaseElement(seg.selector)
  \/ selectorUsesClass(seg.selector, used)
  \/ ClassMatches(seg.selector) = <<>>

\* a retention test that would let the class tokens of a selector decide
\* whenever it has any
shouldKeepClassFirst(seg, used) ==
  \/ seg.type # "rule"
  \/ IF ClassMatches(seg.selector) # <<>>
       THEN selectorUsesClass(seg.selector, used)
       ELSE isBaseElement(seg.selector)

\* a retention test that would keep a block at-rule only for a class in use
\* that its text names
shouldKeepAtRuleByClass(seg, used) ==
  IF seg.type = "at-rule" THEN selectorUsesClass(seg.raw, used)
  ELSE IF seg.type = "rule"
    THEN isBaseElement(seg.selector) \/ selectorUsesClass(seg.selector, used)
  ELSE TRUE

shouldKeepSegment(seg, used) ==
  IF seg.type = "import" THEN TRUE
  ELSE IF seg.type = "comment" THEN TRUE
  ELSE IF seg.type = "at-rule" THEN TRUE
  ELSE IF seg.type = "rule"
    THEN IF isBaseElement(seg.selector) THEN TRUE
         ELSE selectorUsesClass(seg.selector, used)
  ELSE FALSE

\* a retention test for inner rules that looks at class use only
keepInnerRuleByClass(selector, used) == selectorUsesClass(selector, used)

\* the retention test of filterMediaBlock for one inner rule
keepInnerRule(selector, used) ==
  isBaseElement(selector) \/ selectorUsesClass(selector, used)

\* one iteration of the loop "while (p < innerLen)" of filterMediaBlock:
\* the position it leaves in p and the inner rule it parsed, if any
mediaStep(inner, p) ==
  LET innerLen == Len(inner)
      s        == SkipSpace(inner, p)
  IN  IF s >= innerLen THEN [pos |-> s, rule |-> <<>>, stop |-> TRUE]
      ELSE IF StartsWith(inner, COMMENT_OPEN, s)
        THEN LET end == IndexOf(inner, COMMENT_CLOSE, s + 2)
             IN  [pos  |-> IF end = -1 THEN innerLen ELSE end + 2,
                  rule |-> <<>>, stop |-> FALSE]
      ELSE LET braceStart == IndexOf(inner, <<"{">>, s)
           IN  IF braceStart = -1
                 THEN [pos |-> innerLen, rule |-> <<>>, stop |-> FALSE]
               ELSE LET q == ExtractBlock(inner, braceStart)
                    IN  [pos  |-> q + 1, stop |-> FALSE,
                         rule |-> <<[selector |-> Trim(Slice(inner, s, braceStart)),
                                     raw      |-> Slice(inner, s, q + 1)]>>]

\* innerRules after the loop has run from position p on
RECURSIVE mediaRulesFrom(_, _, _)
mediaRulesFrom(inner, p, used) ==
  IF p >= Len(inner) THEN <<>>
  ELSE With(mediaStep(inner, p), LAMBDA st :
         (IF st.rule # <<>> /\ keepInnerRule(st.rule[1].selector, used)
            THEN <<st.rule[1].raw>> ELSE <<>>)
         \o (IF st.stop THEN <<>> ELSE mediaRulesFrom(inner, st.pos, used)))

\* filterMediaBlock(raw): the empty sequence for null, else <<text>>
filterMediaBlock(raw, used) ==
  LET firstBrace == IndexOf(raw, <<"{">>, 0)
  IN  IF firstBrace = -1 THEN <<raw>>
      ELSE LET header     == Slice(raw, 0, firstBrace + 1)
               inner      == SliceButLast(raw, firstBrace + 1)
               innerRules == With(inner, LAMBDA text :
                               mediaRulesFrom(text, 0, used))
           IN  IF Len(innerRules) = 0 THEN <<>>
               ELSE <<header \o NL \o Join(innerRules, NL) \o NL \o <<"}">> >>

isMediaSegment(seg) == seg.type = "at-rule" /\ StartsWith(seg.raw, AT_MEDIA, 0)

\* what the retention loop pushes to keptRules for one segment
keptOf(seg, used) ==
  IF isMediaSegment(seg) THEN filterMediaBlock(seg.raw, used)
  ELSE IF shouldKeepSegment(seg, used) THEN <<seg.raw>>
  ELSE <<>>

\* a retention loop that would put each kept text before the earlier ones
RECURSIVE retainFromNewestFirst(_, _, _, _)
retainFromNewestFirst(segs, k, used, acc) ==
  IF k > Len(segs) THEN acc
  ELSE LET got == keptOf(segs[k], used)
       IN  retainFromNewestFirst(segs, k + 1, used,
             IF got # <<>>
               THEN [acc EXCEPT !.keptRules = got \o @, !.keptCount = @ + 1]
               ELSE [acc EXCEPT !.skippedCount = @ + 1])

\* the retention loop "for (const seg of segments)" over segs[k..]
RECURSIVE retainFrom(_, _, _, _)
retainFrom(segs, k, used, acc) ==
  IF k > Len(segs) THEN acc
  ELSE LET got == keptOf(segs[k], used)
       IN  retainFrom(segs, k + 1, used,
             IF got # <<>>
               THEN [acc EXCEPT !.keptRules = @ \o got, !.keptCount = @ + 1]
               ELSE [acc EXCEPT !.skippedCount = @ + 1])

\* build() on stylesheet text css with the scanned class set used
buildResult(css, used) ==
  LET segs == tokenize(css)
      kept == retainFrom(segs, 1, used,
                [keptRules |-> <<>>, keptCount |-> 0, skippedCount |-> 0])
  IN  [segments     |-> segs,
       keptRules    |-> kept.keptRules,
       keptCount    |-> kept.keptCount,
       skippedCount |-> kept.skippedCount,
       output       |-> Join(kept.keptRules, <<"\n", "\n">>)]

\* ------------------------------------------------------------------------
\* style-jit-runtime.js: parseCSS
\* ------------------------------------------------------------------------

\* the alternatives of baseSelectors that are a plain prefix
RuntimeBasePrefix ==
  {
    <<"*">>,
    <<"h", "t", "m", "l">>,
    <<"b", "o", "d", "y">>,
    <<"d", "i", "v">>,
    <<"s", "e", "c", "t", "i", "o", "n">>,
    <<"m", "a", "i", "n">>,
    <<"h", "r">>,
    <<"f", "o", "r", "m">>,
    <<"i", "n", "p", "u", "t">>,
    <<"s", "e", "l", "e", "c", "t">>,
    <<"t", "e", "x", "t", "a", "r", "e", "a">>,
    <<"l", "a", "b", "e", "l">>,
    <<"f", "i", "e", "l", "d", "s", "e", "t">>,
    <<"o", "p", "t", "i", "o", "n">>,
    <<"t", "a", "b", "l", "e">>,
    <<"t", "h", "e", "a", "d">>,
    <<"t", "b", "o", "d", "y">>,
    <<"t", "r">>,
    <<"t", "h">>,
    <<"t", "d">>,
    <<"i", "m", "g">>,
    <<"p", "r", "o", "g", "r", "e", "s", "s">>,
    <<":", "r", "o", "o", "t">>,
    <<"u", "l">>,
    <<"o", "l">>,
    <<"l", "i">>,
    <<"n", "a", "v">>,
    <<"s", "p", "a", "n">>,
    <<"h", "e", "a", "d", "e", "r">>,
    <<"f", "o", "o", "t", "e", "r">>,
    <<"@", "i", "m", "p", "o", "r", "t">>,
    <<"@", "c", "h", "a", "r", "s", "e", "t">>
  }

\* the alternatives of baseSelectors that end in \b
RuntimeBaseWord ==
  {
    <<"p">>,
    <<"a">>,
    <<"b", "u", "t", "t", "o", "n">>,
    <<"i">>
  }

\* \w
IsWordChar(c) == c \in Letters \cup Digits \cup { "_" }

\* baseSelectors.test(selector)
baseSelectors(selector) ==
  \E sel \in { selector } :
    \/ \E pre \in RuntimeBasePrefix : StartsWith(sel, pre, 0)
    \/ \E w \in RuntimeBaseWord :
         /\ StartsWith(sel, w, 0)
         /\ (Len(sel) = Len(w) \/ ~IsWordChar(sel[Len(w) + 1]))
    \/ /\ Len(sel) >= 2
       /\ sel[1] = "h"
       /\ sel[2] \in { "1", "2", "3", "4", "5", "6" }

\* const map = {}: the names map inherits from Object.prototype. map[name]
\* of such a name is neither undefined nor an array
ObjectPrototypeKeys ==
  {
    <<"c", "o", "n", "s", "t", "r", "u", "c", "t", "o", "r">>,
    <<"t", "o", "S", "t", "r", "i", "n", "g">>,
    <<"t", "o", "L", "o", "c", "a", "l", "e", "S", "t", "r", "i", "n", "g">>,
    <<"v", "a", "l", "u", "e", "O", "f">>,
    <<"h", "a", "s", "O", "w", "n", "P", "r", "o", "p", "e", "r", "t", "y">>,
    <<"i", "s", "P", "r", "o", "t", "o", "t", "y", "p", "e", "O", "f">>,
    <<"p", "r", "o", "p", "e", "r", "t", "y", "I", "s", "E", "n", "u", "m", "e", "r", "a", "b", "l", "e">>,
    <<"_", "_", "p", "r", "o", "t", "o", "_", "_">>
  }

\* if (!map[name]) map[name] = []; map[name].push(text) for the names in
\* order: an inherited name passes the test as present and has no push, so
\* the call throws a TypeError
registrationThrows(names) ==
  \E k \in DOMAIN names : names[k] \in ObjectPrototypeKeys

\* classMatches.forEach(cn => map[cn.slice(1)].push(text)), as the
\* registrations <<name, text>> in order
registrations(names, text) == [k \in DOMAIN names |-> <<names[k], text>>]

\* `${mediaHeader}\n${body}\n}`
wrapMedia(mediaHeader, body) == mediaHeader \o NL \o body \o NL \o <<"}">>

\* one iteration of the loop "while (mp < ml)" over the interior of an
\* @media block: the position it leaves in mp, what it pushes to
\* mediaBaseRules and what it registers in map
parseMediaStep(mediaInner, mp, mediaHeader) ==
  LET ml == Len(mediaInner)
      s  == SkipSpace(mediaInner, mp)
      none == [pos |-> s, base |-> <<>>, reg |-> <<>>, stop |-> FALSE,
               threw |-> FALSE]
  IN  IF s >= ml THEN [none EXCEPT !.stop = TRUE]
      ELSE IF StartsWith(mediaInner, COMMENT_OPEN, s)
        THEN LET end == IndexOf(mediaInner, COMMENT_CLOSE, s + 2)
             IN  [none EXCEPT !.pos = IF end = -1 THEN ml ELSE end + 2]
      ELSE LET braceStart == IndexOf(mediaInner, <<"{">>, s)
           IN  IF braceStart = -1 THEN [none EXCEPT !.pos = ml]
               ELSE LET selector == Trim(Slice(mediaInner, s, braceStart))
                        q        == ExtractBlock(mediaInner, braceStart)
                        ruleRaw  == Slice(mediaInner, s, q + 1)
                        classMatches == ClassMatches(selector)
                    IN  [pos  |-> q + 1, stop |-> FALSE,
                         base |-> IF classMatches = <<>> /\ baseSelectors(selector)
                                    THEN <<ruleRaw>> ELSE <<>>,
                         reg  |-> registrations(classMatches,
                                    wrapMedia(mediaHeader, ruleRaw)),
                         threw |-> registrationThrows(classMatches)]

\* the whole inner loop from position mp on
RECURSIVE parseMediaFrom(_, _, _)
parseMediaFrom(mediaInner, mp, mediaHeader) ==
  IF mp >= Len(mediaInner) THEN [base |-> <<>>, reg |-> <<>>, threw |-> FALSE]
  ELSE With(parseMediaStep(mediaInner, mp, mediaHeader), LAMBDA st :
         IF st.stop \/ st.threw
           THEN [base |-> st.base, reg |-> st.reg, threw |-> st.threw]
         ELSE With(parseMediaFrom(mediaInner, st.pos, mediaHeader), LAMBDA rest :
                [base |-> st.base \o rest.base, reg |-> st.reg \o rest.reg,
                 threw |-> rest.threw]))

\* one iteration of the loop "while (pos < len)" of parseCSS: the position
\* it leaves in pos, what it pushes to base and what it registers in map
parseStep(cssText, pos, keepBase) ==
  LET len == Len(cssText)
      p   == SkipSpace(cssText, pos)
      none == [pos |-> p, base |-> <<>>, reg |-> <<>>, stop |-> FALSE,
               threw |-> FALSE]
      braceStart == IndexOf(cssText, <<"{">>, p)
      braceEnd   == ExtractBlock(cssText, braceStart)
  IN  IF p >= len THEN [none EXCEPT !.stop = TRUE]
      ELSE IF StartsWith(cssText, COMMENT_OPEN, p)
        THEN LET end == IndexOf(cssText, COMMENT_CLOSE, p + 2)
             IN  [none EXCEPT !.pos = IF end = -1 THEN len ELSE end + 2]
      ELSE IF StartsWith(cssText, AT_IMPORT, p) \/ StartsWith(cssText, AT_CHARSET, p)
        THEN LET end == IndexOf(cssText, <<";">>, p)
                 e   == IF end = -1 THEN len ELSE end + 1
             IN  [none EXCEPT !.pos = e, !.base = <<Slice(cssText, p, e)>>]
      ELSE IF braceStart = -1 THEN [none EXCEPT !.pos = len]
      ELSE IF StartsWith(cssText, AT_KEYFRAME, p)
        THEN [none EXCEPT !.pos = braceEnd + 1,
                          !.base = <<Slice(cssText, p, braceEnd + 1)>>]
      ELSE IF StartsWith(cssText, AT_MEDIA, p)
        THEN LET mediaHeader == Slice(cssText, p, braceStart + 1)
                 mediaInner  == Slice(cssText, braceStart + 1, braceEnd)
                 in          == With(<<mediaInner, mediaHeader>>, LAMBDA m :
                                  parseMediaFrom(m[1], 0, m[2]))
             IN  [pos  |-> braceEnd + 1, stop |-> FALSE,
                  base |-> IF Len(in.base) > 0 /\ ~in.threw
                             THEN <<wrapMedia(mediaHeader, Join(in.base, NL))>>
                             ELSE <<>>,
                  reg  |-> in.reg,
                  threw |-> in.threw]
      ELSE LET selector     == Trim(Slice(cssText, p, braceStart))
               raw          == Slice(cssText, p, braceEnd + 1)
               classMatches == ClassMatches(selector)
           IN  [pos  |-> braceEnd + 1, stop |-> FALSE,
                base |-> IF classMatches = <<>> /\ keepBase
                           THEN <<raw>> ELSE <<>>,
                reg  |-> registrations(classMatches, raw),
                threw |-> registrationThrows(classMatches)]

RECURSIVE parseFrom(_, _, _)
parseFrom(cssText, pos, keepBase) ==
  IF pos >= Len(cssText) THEN [base |-> <<>>, reg |-> <<>>, threw |-> FALSE]
  ELSE With(parseStep(cssText, pos, keepBase), LAMBDA st :
         IF st.stop \/ st.threw
           THEN [base |-> st.base, reg |-> st.reg, threw |-> st.threw]
         ELSE With(parseFrom(cssText, st.pos, keepBase), LAMBDA rest :
                [base |-> st.base \o rest.base, reg |-> st.reg \o rest.reg,
                 threw |-> rest.threw]))

\* map after the registrations reg[k..], in order:
\* if (!map[name]) map[name] = []; map[name].push(text)
RECURSIVE registerFrom(_, _, _)
registerFrom(map, reg, k) ==
  IF k > Len(reg) THEN map
  ELSE LET name == reg[k][1]
           text == reg[k][2]
       IN  registerFrom(
             IF name \in DOMAIN map
               THEN [map EXCEPT ![name] = Append(@, text)]
               ELSE map @@ (name :> <<text>>),
             reg, k + 1)

\* the class -> rule texts map with no entry
EmptyMap == [name \in {} |-> <<>>]

\* parseCSS(cssText): { map, base: base.join('\n') }, or (threw) the
\* TypeError of a registration, which leaves no result
parseCSS(cssText, keepBase) ==
  LET got == With(cssText, LAMBDA text : parseFrom(text, 0, keepBase))
  IN  IF got.threw THEN [map |-> EmptyMap, base |-> <<>>, threw |-> TRUE]
      ELSE [map   |-> registerFrom(EmptyMap, got.reg, 1),
            base  |-> Join(got.base, NL),
            threw |-> FALSE]

\* ------------------------------------------------------------------------
\* style-jit-runtime.js: state, injection and scheduling
\* ------------------------------------------------------------------------

\* a reference that is null until it is assigned
Null      == [set |-> FALSE, val |-> <<>>]
Some(v)   == [set |-> TRUE, val |-> v]

\* a Set of the host language: its members in insertion order
SetHas(set, c) == \E k \in DOMAIN set : set[k] = c
SetAdd(set, c) == IF SetHas(set, c) THEN set ELSE Append(set, c)

RECURSIVE SetAddAll(_, _)
SetAddAll(set, items) ==
  IF items = <<>> THEN set ELSE SetAddAll(SetAdd(set, items[1]), Tail(items))

\* the orders in which a traversal can meet the members of S
Orderings(S) ==
  { o \in [1..Cardinality(S) -> S] : \A c \in S : \E k \in DOMAIN o : o[k] = c }

\* cssRules[cls]: the rule texts registered for cls ("rules"), a value
\* inherited from Object.prototype ("inherited"), or undefined
lookupKind(map, cls) ==
  IF cls \in DOMAIN map THEN "rules"
  ELSE IF cls \in ObjectPrototypeKeys THEN "inherited"
  ELSE "undefined"

\* a set that holds the last class added only
addInjectedAlone(injected, cls) == <<cls>>

\* injectedClasses.add(cls)
addInjected(injected, cls) == SetAdd(injected, cls)

\* classes.forEach(cls => { ... }) of injectClasses over classes, entered
\* with injectedClasses = injected and newRules = newRules: the two after
\* it. newRules.push(...rules) throws a TypeError for an inherited value,
\* which is not iterable: the traversal ends there (threw)
RECURSIVE injectLoop(_, _, _, _)
injectLoop(classes, injected, newRules, map) ==
  IF classes = <<>>
    THEN [injectedClasses |-> injected, newRules |-> newRules, threw |-> FALSE]
  ELSE With(<<classes[1], lookupKind(map, classes[1])>>, LAMBDA c :
         IF SetHas(injected, c[1])
           THEN injectLoop(Tail(classes), injected, newRules, map)
         ELSE IF c[2] = "inherited"
           THEN [injectedClasses |-> addInjected(injected, c[1]),
                 newRules |-> newRules, threw |-> TRUE]
         ELSE injectLoop(Tail(classes), addInjected(injected, c[1]),
                         newRules \o (IF c[2] = "rules" THEN map[c[1]] ELSE <<>>),
                         map))

\* an assignment "=" in place of "+=": the new rules replace the text
textReplaced(text, newRules) ==
  IF Len(newRules) > 0 THEN Join(newRules, NL) ELSE text

\* tag.textContent += '\n' + newRules.join('\n'), when newRules is not empty
textAfter(text, newRules) ==
  IF Len(newRules) > 0 THEN text \o NL \o Join(newRules, NL) ELSE text

\* getStyleTag(): the text of the style element, created empty if absent
getStyleTag(tag) == IF tag.set THEN tag.val ELSE <<>>

\* an injectClasses with no test of cssRules, for which a map that is not
\* there yet has no rules
injectClassesUnguarded(classes, rt) ==
  With(injectLoop(classes, rt.injectedClasses, <<>>,
                  IF rt.cssRules.set THEN rt.cssRules.val ELSE EmptyMap),
    LAMBDA done :
      [injectedClasses |-> done.injectedClasses,
       styleTag |->
         Some(IF done.threw THEN getStyleTag(rt.styleTag)
              ELSE textAfter(getStyleTag(rt.styleTag), done.newRules)),
       threw |-> done.threw])

\* injectClasses(classes) on the runtime state rt = [cssRules,
\* injectedClasses, styleTag]: injectedClasses and styleTag after the call,
\* and whether it threw
injectClasses(classes, rt) ==
  IF ~rt.cssRules.set
    THEN [injectedClasses |-> rt.injectedClasses, styleTag |-> rt.styleTag,
          threw |-> FALSE]
  ELSE With(injectLoop(classes, rt.injectedClasses, <<>>, rt.cssRules.val),
         LAMBDA done :
           [injectedClasses |-> done.injectedClasses,
            styleTag |->
              Some(IF done.threw THEN getStyleTag(rt.styleTag)
                   ELSE textAfter(getStyleTag(rt.styleTag), done.newRules)),
            threw |-> done.threw])

\* if (!Array.isArray(classes)) classes = [classes]
asArray(arg) == IF arg.array THEN arg.items ELSE <<arg.name>>

\* a scheduler that registers a callback on every call
needsFlushAlways(timer) == TRUE

\* if (!flushTimer): no flush callback is registered yet
needsFlush(timer) == timer = "null"

\* ------------------------------------------------------------------------
\* Inputs
\* ------------------------------------------------------------------------

\* the class names that occur in the scanned files and in the document
ClassNames == { <<"a">>, <<"b">> }

\* pieces of stylesheet text an edit of the stylesheet appends: rules that
\* are class-scoped, base and neither, @media blocks whose inner rules
\* survive or not, truncated or stray text, an @charset statement, an
\* @keyframes block, rules whose selector is base and names a class, and
\* a rule for the element header
Fragments ==
  {
    <<".", "a", "{", "x", "}">>,
    <<".", "b", "{", "x", "}">>,
    <<"p", "{", "x", "}">>,
    <<"q", "{", "x", "}">>,
    <<":", "r", "o", "o", "t", "{", "v", "}">>,
    <<"@", "m", "e", "d", "i", "a", " ", "q", "{", ".", "a", "{", "x", "}", " ", "p", "{", "x", "}", "}">>,
    <<"@", "m", "e", "d", "i", "a", " ", "q", "{", ".", "b", "{", "x", "}", " ", "q", "{", "x", "}", "}">>,
    <<"@", "m", "e", "d", "i", "a", " ", "q", "{", ".", "a", "{", "x", "}">>,
    <<"}">>,
    <<" ">>,
    <<"/", "*", "c", "*", "/">>,
    <<"/", "*">>,
    <<"@", "i", "m", "p", "o", "r", "t", " ", "u", ";">>,
    <<"q">>,
    <<".", "a", "{", "x">>,
    <<".", "c", "o", "n", "s", "t", "r", "u", "c", "t", "o", "r", "{", "x", "}">>,
    <<"@", "c", "h", "a", "r", "s", "e", "t", " ", "u", ";">>,
    <<"@", "k", "e", "y", "f", "r", "a", "m", "e", "s", " ", "k", "{", "t", "o", "{", "x", "}", "}">>,
    <<"i", "n", "p", "u", "t", ".", "b", "{", "x", "}">>,
    <<"@", "m", "e", "d", "i", "a", " ", "q", "{", "i", "n", "p", "u", "t", ".", "b", "{", "x", "}", "}">>,
    <<"h", "e", "a", "d", "e", "r", "{", "x", "}">>
  }

\* the stylesheet of the first build: an empty file, or
\* ":root{v} .a{x} .b{y} div{z}"
InitialSheets ==
  { <<>>,
    <<":", "r", "o", "o", "t", "{", "v", "}", " ", ".", "a", "{", "x", "}", " ", ".", "b", "{", "y", "}", " ", "d", "i", "v", "{", "z", "}">> }

\* the class names that occur on elements of the document and in calls
\* of StyleJIT.inject
RtClassNames == { <<"a">>, <<"b">>, <<"c", "o", "n", "s", "t", "r", "u", "c", "t", "o", "r">> }

\* the stylesheets config.cssPath can serve:
\*   "p{x} .a{y} .b{z}", ".a.b{x} q{y}", "@media q{.a{x} p{y}} .a{z}",
\*   ".constructor{x} .a{y}", "@keyframes k{to{x}} .a{y}" and
\*   ".a .a{x} @media q{.b .b{y}}"
FetchedSheets ==
  {
    <<"p", "{", "x", "}", " ", ".", "a", "{", "y", "}", " ", ".", "b", "{", "z", "}">>,
    <<".", "a", ".", "b", "{", "x", "}", " ", "q", "{", "y", "}">>,
    <<"@", "m", "e", "d", "i", "a", " ", "q", "{", ".", "a", "{", "x", "}", " ", "p", "{", "y", "}", "}", " ", ".", "a", "{", "z", "}">>,
    <<".", "c", "o", "n", "s", "t", "r", "u", "c", "t", "o", "r", "{", "x", "}", " ", ".", "a", "{", "y", "}">>,
    <<"@", "k", "e", "y", "f", "r", "a", "m", "e", "s", " ", "k", "{", "t", "o", "{", "x", "}", "}", " ", ".", "a", "{", "y", "}">>,
    <<".", "a", " ", ".", "a", "{", "x", "}", " ", "@", "m", "e", "d", "i", "a", " ", "q", "{", ".", "b", " ", ".", "b", "{", "y", "}", "}">>
  }

\* length of the arrays handed to StyleJIT.inject
MaxInjectArgs == 1

\* the arguments of StyleJIT.inject: one class name, or an array of class
\* names
ApiArgs ==
  { [array |-> FALSE, name |-> c] : c \in RtClassNames }
    \cup { [array |-> TRUE, items |-> cs] :
             cs \in UNION { [1..n -> RtClassNames] : n \in 0..MaxInjectArgs } }

\* number of edits of the stylesheet that the watcher reports
MaxEdits == 2

\* number of fragments in a text handed to a scanning loop
MaxScanFrags == 2

RECURSIVE Concat(_)
Concat(texts) == IF texts = <<>> THEN <<>> ELSE texts[1] \o Concat(Tail(texts))

ScanTexts ==
  { Concat(fs) : fs \in UNION { [1..n -> Fragments] : n \in 0..MaxScanFrags } }

\* ------------------------------------------------------------------------
\* State
\* ------------------------------------------------------------------------

VARIABLES
  \* style-jit-cli.js
  watchMode,        \* --watch was given
  cliPc,            \* "start", "watching" (after build(), in watch mode),
                    \* "done", "exited" (by process.exit(1))
  cssPresent,       \* a file exists at cssPath
  cssFile,          \* the text build() reads from cssPath (fullCSS)
  usedClasses,      \* what scanFilesForClasses returns to build()
  edits,            \* stylesheet change events delivered so far
  segments,         \* of the last build()
  keptRules,
  keptCount,
  skippedCount,
  outFile,          \* the text build() wrote to outPath
  \* one scanning loop, iteration by iteration
  scanKind,         \* which loop
  scanText,         \* the text it scans
  scanPos,          \* pos / p / mp
  scanDone,         \* the loop was left
  scanThrew,        \* by an exception
  \* style-jit-runtime.js
  config,           \* the options watch, keepBase and inject of the host
  initPc,           \* init(): "waiting" for DOMContentLoaded, "fetching",
                    \* "loaded" (returned), "failed" (fetch error caught),
                    \* "aborted" (left by an exception)
  fullCSS,
  cssRules,
  baseRules,
  injectedClasses,
  styleTag,         \* null, or the textContent of the style element
  pendingClasses,
  flushTimer,       \* "null" or "handle"
  frameCallbacks,   \* flushPending callbacks registered for the next frame
  dom,              \* the class names on the elements under document.body
  observing,        \* the MutationObserver is installed
  records           \* mutation records queued for the observer

cliVars  == <<watchMode, cliPc, cssPresent, cssFile, usedClasses, edits, segments,
              keptRules, keptCount, skippedCount, outFile>>
scanVars == <<scanKind, scanText, scanPos, scanDone, scanThrew>>
rtVars   == <<config, initPc, fullCSS, cssRules, baseRules, injectedClasses,
              styleTag, pendingClasses, flushTimer, frameCallbacks, dom,
              observing, records>>
vars     == <<cliVars, scanVars, rtVars>>

\* the extractor not running
CliIdle ==
  /\ watchMode = FALSE /\ cliPc = "done" /\ cssPresent = TRUE
  /\ cssFile = <<>> /\ usedClasses = {}
  /\ edits = 0 /\ segments = <<>> /\ keptRules = <<>> /\ keptCount = 0
  /\ skippedCount = 0 /\ outFile = <<>>

\* no scanning loop under observation
ScanIdle ==
  /\ scanKind = "none" /\ scanText = <<>> /\ scanPos = 0 /\ scanDone = TRUE
  /\ scanThrew = FALSE

NoRecords == [queued |-> FALSE, classes |-> {}]

\* the runtime script not loaded
RtIdle ==
  /\ config = [watch |-> FALSE, keepBase |-> FALSE, inject |-> TRUE]
  /\ initPc = "failed" /\ fullCSS = Null /\ cssRules = Null /\ baseRules = <<>>
  /\ injectedClasses = <<>> /\ styleTag = Null /\ pendingClasses = <<>>
  /\ flushTimer = "null" /\ frameCallbacks = 0 /\ dom = {} /\ observing = FALSE
  /\ records = NoRecords

\* ------------------------------------------------------------------------
\* style-jit-cli.js: the process
\* ------------------------------------------------------------------------

CliInit ==
  /\ watchMode \in BOOLEAN
  /\ cliPc = "start"
  /\ cssPresent \in BOOLEAN
  /\ cssFile \in (IF cssPresent THEN InitialSheets ELSE { <<>> })
  /\ usedClasses \in SUBSET ClassNames
  /\ edits = 0
  /\ segments = <<>> /\ keptRules = <<>> /\ keptCount = 0 /\ skippedCount = 0
  /\ outFile = <<>>
  /\ ScanIdle /\ RtIdle

\* a build() whose keptRules array would outlive the call
buildOnEarlier(css, used) ==
  \E r \in { buildResult(css, used) } :
      /\ cssFile' = css
      /\ usedClasses' = used
      /\ segments' = r.segments
      /\ keptRules' = keptRules \o r.keptRules
      /\ keptCount' = keptCount + r.keptCount
      /\ skippedCount' = skippedCount + r.skippedCount
      /\ outFile' = Join(keptRules \o r.keptRules, <<"\n", "\n">>)

\* build() reading the stylesheet text css and the scan result used
build(css, used) ==
  \E r \in { buildResult(css, used) } :
      /\ cssFile' = css
      /\ usedClasses' = used
      /\ segments' = r.segments
      /\ keptRules' = r.keptRules
      /\ keptCount' = r.keptCount
      /\ skippedCount' = r.skippedCount
      /\ outFile' = r.output

\* build() as the process calls it: with no file at cssPath it ends the
\* process by process.exit(1); else it builds, and the process goes on at pc
runBuild(css, used, pc) ==
  IF cssPresent
    THEN /\ build(css, used)
         /\ cliPc' = pc
    ELSE /\ cliPc' = "exited"
         /\ UNCHANGED <<cssFile, usedClasses, segments, keptRules, keptCount,
                        skippedCount, outFile>>

\* the build() call at the start of the process
InitialBuild ==
  /\ cliPc = "start"
  /\ runBuild(cssFile, usedClasses, IF watchMode THEN "watching" ELSE "done")
  /\ UNCHANGED <<watchMode, cssPresent, edits>>
  /\ UNCHANGED <<scanVars, rtVars>>

\* fs.watch(cssPath): the stylesheet was edited, here by appending f
CssSourceChanged(f) ==
  /\ cliPc = "watching"
  /\ cssPresent
  /\ edits < MaxEdits
  /\ edits' = edits + 1
  /\ runBuild(cssFile \o f, usedClasses, "watching")
  /\ UNCHANGED <<watchMode, cssPresent>>
  /\ UNCHANGED <<scanVars, rtVars>>

\* fs.watch(cssPath): the stylesheet was deleted or moved away, and the
\* watcher calls build()
CssSourceRemoved ==
  /\ cliPc = "watching"
  /\ cssPresent
  /\ cssPresent' = FALSE
  /\ cliPc' = "exited"
  /\ UNCHANGED <<watchMode, cssFile, usedClasses, edits, segments, keptRules,
                 keptCount, skippedCount, outFile>>
  /\ UNCHANGED <<scanVars, rtVars>>

\* fs.watch(dir): a scanned file changed and now yields the classes used
ScanFileChanged(used) ==
  /\ cliPc = "watching"
  /\ runBuild(cssFile, used, "watching")
  /\ UNCHANGED <<watchMode, cssPresent, edits>>
  /\ UNCHANGED <<scanVars, rtVars>>

CliNext ==
  \/ InitialBuild
  \/ \E f \in Fragments : CssSourceChanged(f)
  \/ CssSourceRemoved
  \/ \E used \in SUBSET ClassNames : ScanFileChanged(used)

SpecCLI == CliInit /\ [][CliNext]_vars

\* ------------------------------------------------------------------------
\* The scanning loops, one iteration per step
\* ------------------------------------------------------------------------

ScanKinds == { "tokenize", "filterMediaBlock", "parseCSS", "parseCSS-media" }

ScanInit ==
  /\ scanKind \in ScanKinds
  /\ scanText \in ScanTexts
  /\ scanPos = 0
  /\ scanDone = FALSE
  /\ scanThrew = FALSE
  /\ CliIdle /\ RtIdle

\* the iteration of loop `kind` over `text` entered at position pos: the
\* position it leaves, whether it left through "break", whether it threw
scanStep(kind, text, pos) ==
  IF kind = "tokenize"
    THEN With(tokenizeStep(text, pos), LAMBDA st :
           [pos |-> st.pos, stop |-> st.stop, threw |-> FALSE])
  ELSE IF kind = "filterMediaBlock"
    THEN With(mediaStep(text, pos), LAMBDA st :
           [pos |-> st.pos, stop |-> st.stop, threw |-> FALSE])
  ELSE IF kind = "parseCSS"
    THEN With(parseStep(text, pos, TRUE), LAMBDA st :
           [pos |-> st.pos, stop |-> st.stop, threw |-> st.threw])
  ELSE With(parseMediaStep(text, pos, <<>>), LAMBDA st :
         [pos |-> st.pos, stop |-> st.stop, threw |-> st.threw])

\* the loop condition holds: run the body once
ScanIterate ==
  /\ ~scanDone
  /\ scanPos < Len(scanText)
  /\ \E st \in { scanStep(scanKind, scanText, scanPos) } :
         /\ scanPos' = st.pos
         /\ scanDone' = (st.stop \/ st.threw)
         /\ scanThrew' = st.threw
  /\ UNCHANGED <<scanKind, scanText>>
  /\ UNCHANGED <<cliVars, rtVars>>

\* the loop condition fails: the loop is left
ScanLeave ==
  /\ ~scanDone
  /\ scanPos >= Len(scanText)
  /\ scanDone' = TRUE
  /\ UNCHANGED <<scanKind, scanText, scanPos, scanThrew>>
  /\ UNCHANGED <<cliVars, rtVars>>

ScanNext == ScanIterate \/ ScanLeave

SpecScan == ScanInit /\ [][ScanNext]_vars

\* the host keeps running a loop that has not been left
FairScan == SpecScan /\ WF_vars(ScanNext)

\* ------------------------------------------------------------------------
\* style-jit-runtime.js: the process
\* ------------------------------------------------------------------------

\* the script has run: the state is initial, window.StyleJIT is assigned
\* and init() waits for DOMContentLoaded. config.inject is the option as
\* the host page set it: the script reads it nowhere, and the assignment
\* of window.StyleJIT puts the function inject in its place
Init ==
  /\ config \in [watch : BOOLEAN, keepBase : BOOLEAN, inject : BOOLEAN]
  /\ initPc = "waiting"
  /\ fullCSS = Null /\ cssRules = Null /\ baseRules = <<>>
  /\ injectedClasses = <<>> /\ styleTag = Null /\ pendingClasses = <<>>
  /\ flushTimer = "null" /\ frameCallbacks = 0
  /\ dom = {} /\ observing = FALSE /\ records = NoRecords
  /\ CliIdle /\ ScanIdle

\* what injectClasses reads and writes
rtState ==
  [cssRules |-> cssRules, injectedClasses |-> injectedClasses,
   styleTag |-> styleTag]

\* the start of the script registers init() for DOMContentLoaded or calls
\* it, whatever the options are; init() awaits fetch(config.cssPath)
InitBegin ==
  /\ initPc = "waiting"
  /\ initPc' = "fetching"
  /\ UNCHANGED <<config, fullCSS, cssRules, baseRules, injectedClasses,
                 styleTag, pendingClasses, flushTimer, frameCallbacks, dom,
                 observing, records>>
  /\ UNCHANGED <<cliVars, scanVars>>

\* an init() whose catch block would log and go on with an empty text
FetchFailGoesOn ==
  /\ initPc = "fetching"
  /\ initPc' = "failed"
  /\ cssRules' = Some(EmptyMap)
  /\ styleTag' = Some(<<>>)
  /\ observing' = config.watch
  /\ UNCHANGED <<config, fullCSS, baseRules, injectedClasses,
                 pendingClasses, flushTimer, frameCallbacks, dom, records>>
  /\ UNCHANGED <<cliVars, scanVars>>

\* the fetch fails or answers with an error status: init() logs and returns
FetchFail ==
  /\ initPc = "fetching"
  /\ initPc' = "failed"
  /\ UNCHANGED <<config, fullCSS, cssRules, baseRules, injectedClasses,
                 styleTag, pendingClasses, flushTimer, frameCallbacks, dom,
                 observing, records>>
  /\ UNCHANGED <<cliVars, scanVars>>

\* the fetch answers with text: the rest of init(), which runs without
\* interruption. scanDOM(document.body) meets the classes in the order
\* domClasses
InitLoad(text, domClasses) ==
  /\ initPc = "fetching"
  /\ fullCSS' = Some(text)
  /\ \E parsed \in { parseCSS(text, config.keepBase) } :
       IF parsed.threw
         THEN /\ initPc' = "aborted"
              /\ UNCHANGED <<cssRules, baseRules, injectedClasses, styleTag,
                             observing>>
         ELSE \E r \in { injectClasses(domClasses,
                           [cssRules        |-> Some(parsed.map),
                            injectedClasses |-> injectedClasses,
                            styleTag        |-> Some(parsed.base)]) } :
                /\ cssRules' = Some(parsed.map)
                /\ baseRules' = parsed.base
                /\ injectedClasses' = r.injectedClasses
                /\ styleTag' = r.styleTag
                /\ observing' = (config.watch /\ ~r.threw)
                /\ initPc' = IF r.threw THEN "aborted" ELSE "loaded"
  /\ UNCHANGED <<config, pendingClasses, flushTimer, frameCallbacks, dom,
                 records>>
  /\ UNCHANGED <<cliVars, scanVars>>

\* the page adds elements that carry the classes C, or adds the classes C
\* to an element; an installed observer gets a record of it
HostAddClasses(C) ==
  /\ dom' = dom \cup C
  /\ records' = IF observing
                  THEN [queued |-> TRUE, classes |-> records.classes \cup C]
                  ELSE records
  /\ UNCHANGED <<config, initPc, fullCSS, cssRules, baseRules,
                 injectedClasses, styleTag, pendingClasses, flushTimer,
                 frameCallbacks, observing>>
  /\ UNCHANGED <<cliVars, scanVars>>

\* the page takes class c off an element that keeps the classes rest; an
\* installed observer gets a record whose target has the classes rest
HostRemoveClass(c, rest) ==
  /\ c \in dom
  /\ rest \subseteq dom \ { c }
  /\ dom' = dom \ { c }
  /\ records' = IF observing
                  THEN [queued |-> TRUE, classes |-> records.classes \cup rest]
                  ELSE records
  /\ UNCHANGED <<config, initPc, fullCSS, cssRules, baseRules,
                 injectedClasses, styleTag, pendingClasses, flushTimer,
                 frameCallbacks, observing>>
  /\ UNCHANGED <<cliVars, scanVars>>

\* scheduleInject(classes)
scheduleInject(classes) ==
  /\ pendingClasses' = SetAddAll(pendingClasses, classes)
  /\ IF needsFlush(flushTimer)
       THEN /\ flushTimer' = "handle"
            /\ frameCallbacks' = frameCallbacks + 1
       ELSE UNCHANGED <<flushTimer, frameCallbacks>>

\* a callback that would inject what it collected at once, with no frame
\* in between
MutationCallbackInjecting(newClasses) ==
  /\ records.queued
  /\ records' = NoRecords
  /\ \E r \in { injectClasses(newClasses, rtState) } :
       /\ injectedClasses' = r.injectedClasses
       /\ styleTag' = r.styleTag
  /\ UNCHANGED <<config, initPc, fullCSS, cssRules, baseRules, dom,
                 observing, pendingClasses, flushTimer, frameCallbacks>>
  /\ UNCHANGED <<cliVars, scanVars>>

\* the MutationObserver callback gets the queued records and collects
\* their classes in the order newClasses
MutationCallback(newClasses) ==
  /\ records.queued
  /\ records' = NoRecords
  /\ IF Len(newClasses) > 0
       THEN scheduleInject(newClasses)
       ELSE UNCHANGED <<pendingClasses, flushTimer, frameCallbacks>>
  /\ UNCHANGED <<config, initPc, fullCSS, cssRules, baseRules,
                 injectedClasses, styleTag, dom, observing>>
  /\ UNCHANGED <<cliVars, scanVars>>

\* a rendering frame runs a registered callback: flushPending()
FrameFlush ==
  /\ frameCallbacks > 0
  /\ frameCallbacks' = frameCallbacks - 1
  /\ flushTimer' = "null"
  /\ IF Len(pendingClasses) > 0
       THEN \E r \in { injectClasses(pendingClasses, rtState) } :
              /\ injectedClasses' = r.injectedClasses
              /\ styleTag' = r.styleTag
              /\ pendingClasses' = IF r.threw THEN pendingClasses ELSE <<>>
       ELSE UNCHANGED <<injectedClasses, styleTag, pendingClasses>>
  /\ UNCHANGED <<config, initPc, fullCSS, cssRules, baseRules, dom,
                 observing, records>>
  /\ UNCHANGED <<cliVars, scanVars>>

\* StyleJIT.inject(arg)
ApiInject(arg) ==
  /\ \E r \in { injectClasses(asArray(arg), rtState) } :
       /\ injectedClasses' = r.injectedClasses
       /\ styleTag' = r.styleTag
  /\ UNCHANGED <<config, initPc, fullCSS, cssRules, baseRules,
                 pendingClasses, flushTimer, frameCallbacks, dom, observing,
                 records>>
  /\ UNCHANGED <<cliVars, scanVars>>

\* StyleJIT.rescan(), whose scanDOM meets the classes in the order
\* domClasses
ApiRescan(domClasses) ==
  /\ \E r \in { injectClasses(domClasses, rtState) } :
       /\ injectedClasses' = r.injectedClasses
       /\ styleTag' = r.styleTag
  /\ UNCHANGED <<config, initPc, fullCSS, cssRules, baseRules,
                 pendingClasses, flushTimer, frameCallbacks, dom, observing,
                 records>>
  /\ UNCHANGED <<cliVars, scanVars>>

\* StyleJIT.getInjected()
getInjected == injectedClasses

\* StyleJIT.getAvailable(): the keys of cssRules, none while it is null
getAvailable == IF cssRules.set THEN DOMAIN cssRules.val ELSE {}

Next ==
  \/ InitBegin
  \/ FetchFail
  \/ \E text \in FetchedSheets, domClasses \in Orderings(dom) :
       InitLoad(text, domClasses)
  \/ \E C \in SUBSET RtClassNames \ { {} } : HostAddClasses(C)
  \/ \E c \in RtClassNames, rest \in SUBSET RtClassNames :
       HostRemoveClass(c, rest)
  \/ \E newClasses \in Orderings(records.classes) :
       MutationCallback(newClasses)
  \/ FrameFlush
  \/ \E arg \in ApiArgs : ApiInject(arg)
  \/ \E domClasses \in Orderings(dom) : ApiRescan(domClasses)

Spec == Init /\ [][Next]_vars

\* every registered frame callback is run by some rendering frame
FairSpec == Spec /\ WF_vars(FrameFlush)

\* ========================================================================
\* Properties
\* ========================================================================

Built == cliPc # "start"

\* text from position pos on is: white space, the raw text of segs[k],
\* white space, the raw text of segs[k + 1], ..., white space
RECURSIVE CoveredFrom(_, _, _, _)
CoveredFrom(text, segs, k, pos) ==
  LET p == SkipSpace(text, pos)
  IN  IF k > Len(segs) THEN p = Len(text)
      ELSE /\ StartsWith(text, segs[k].raw, p)
           /\ CoveredFrom(text, segs, k + 1, p + Len(segs[k].raw))

\* C1: the segments of a build are, in order and apart from white space
\* between them, the whole stylesheet text: no character that is not white
\* space is outside every segment
C1_SegmentsCoverInput ==
  Built => CoveredFrom(cssFile, segments, 1, 0)

\* C2: in each of the four scanning loops every iteration leaves the scan
\* position greater than it found it, no iteration throws, a loop that was
\* left has its position at or past the end of the text, and every loop is
\* eventually left
C2_ScanTerminates ==
  /\ [][(~scanDone /\ scanPos < Len(scanText)) => scanPos' > scanPos]_vars
  /\ [](~scanThrew)
  /\ [](scanDone => scanPos >= Len(scanText))
  /\ <>scanDone

AllRules(segs) == \A k \in DOMAIN segs : segs[k].type = "rule"

RawsOf(rules) == [k \in DOMAIN rules |-> rules[k].raw]

\* a rule with this selector is to be kept for the class set used
Wanted(selector, used) ==
  isBaseElement(selector) \/ selectorUsesClass(selector, used)

AllMedia(segs) == segs # <<>> /\ \A k \in DOMAIN segs : isMediaSegment(segs[k])

\* every inner rule the loop of filterMediaBlock parses from position p on
RECURSIVE InnerRulesFrom(_, _)
InnerRulesFrom(inner, p) ==
  IF p >= Len(inner) THEN <<>>
  ELSE LET st == mediaStep(inner, p)
       IN  st.rule \o (IF st.stop THEN <<>> ELSE InnerRulesFrom(inner, st.pos))

\* what is to be emitted for the @media block raw: nothing when no inner
\* rule is wanted, else the header, the wanted inner rules in order, a brace
ExpectedBlock(raw, used) ==
  LET firstBrace == IndexOf(raw, <<"{">>, 0)
      wanted(rule) == Wanted(rule.selector, used)
      survivors  == SelectSeq(InnerRulesFrom(SliceButLast(raw, firstBrace + 1), 0),
                              wanted)
  IN  IF survivors = <<>> THEN <<>>
      ELSE <<Slice(raw, 0, firstBrace + 1) \o NL
               \o Join(RawsOf(survivors), NL) \o NL \o <<"}">> >>

C5_InjectedOnlyGrows ==
  [][Range(injectedClasses) \subseteq Range(injectedClasses')]_vars

\* classes were injected at load and by a flush, their elements have left
\* the document since, and they are still in injectedClasses
C5_Witness ==
  /\ initPc = "loaded" /\ observing
  /\ Len(injectedClasses) >= 2
  /\ dom = {}
  /\ pendingClasses = <<>> /\ flushTimer = "null"

\* the text a step appends to the style element
Appended == Slice(styleTag'.val, Len(styleTag.val), Len(styleTag'.val))

\* a step after the load that appends text to the style element
Appends ==
  /\ cssRules.set /\ cssRules' = cssRules
  /\ styleTag.set /\ styleTag'.set
  /\ Len(styleTag'.val) > Len(styleTag.val)

\* C6: a step that appends to the style element appends no rule text that
\* is registered for a class injected before the step, whose rules are in
\* the element already
C6_NoRuleAppendedTwice ==
  [][Appends =>
       \A c \in Range(injectedClasses) \cap DOMAIN cssRules.val :
         \A k \in DOMAIN cssRules.val[c] :
           ~Includes(Appended, cssRules.val[c][k])]_vars

\* init() gets the stylesheet text and parses it
Loads == initPc = "fetching" /\ cssRules'.set

\* C7: when init() has loaded and parsed the stylesheet, the style element
\* starts with the base block and contains the rules of every class found
\* in the document, and getInjected() is the classes found in the document
C7_LoadInjectsDomClasses ==
  [][Loads =>
       /\ styleTag'.set
       /\ StartsWith(styleTag'.val, baseRules', 0)
       /\ Range(getInjected') = dom
       /\ \A c \in dom \cap DOMAIN cssRules'.val :
            \A k \in DOMAIN cssRules'.val[c] :
              Includes(styleTag'.val, cssRules'.val[c][k])]_vars

\* the observer callback runs
Notifies == records.queued /\ ~records'.queued

C9_PendingOnlyWhileScheduled ==
  /\ [](Len(pendingClasses) > 0 => flushTimer # "null" /\ frameCallbacks > 0)
  /\ [][frameCallbacks' < frameCallbacks =>
          /\ pendingClasses' = <<>>
          /\ flushTimer' = "null" /\ frameCallbacks' = 0]_vars

\* C10: a registered flush is eventually run, a class in pendingClasses is
\* eventually in injectedClasses, and the scheduler is eventually idle again
C10_PendingEventuallyInjected ==
  /\ (flushTimer # "null") ~> (flushTimer = "null")
  /\ \A c \in RtClassNames :
       SetHas(pendingClasses, c) ~> SetHas(injectedClasses, c)
  /\ (Len(pendingClasses) > 0) ~> (pendingClasses = <<>> /\ flushTimer = "null")

\* C11: a step in which the mutation callback runs leaves the set of
\* injected classes and the style element (its existence and its text) as
\* they were; what the callback collected waits in pendingClasses for a
\* frame flush or a call of the public API
C11_NotificationInjectsNothing ==
  [][Notifies => (injectedClasses' = injectedClasses /\ styleTag' = styleTag)]_vars

\* a callback has handed over a class that has rules and is not injected
C11_Witness ==
  /\ ~records.queued
  /\ flushTimer = "handle"
  /\ cssRules.set
  /\ \E k \in DOMAIN pendingClasses :
       /\ lookupKind(cssRules.val, pendingClasses[k]) = "rules"
       /\ ~SetHas(injectedClasses, pendingClasses[k])

\* C12: once the fetch has failed, init() has returned without an uncaught
\* exception and, from then on, there is no style element and so no
\* injected text, no class is injected, the rule map and the stylesheet
\* text are unset, and no MutationObserver is installed
C12_FetchFailureAbortsQuietly ==
  initPc = "failed" =>
    /\ ~styleTag.set
    /\ injectedClasses = <<>>
    /\ ~cssRules.set /\ ~fullCSS.set /\ baseRules = <<>>
    /\ ~observing /\ ~records.queued
    /\ pendingClasses = <<>> /\ frameCallbacks = 0

\* the fetch has failed on a page whose document carries classes
C12_Witness ==
  initPc = "failed" /\ dom # {}

\* text is what a kept segment seg gives to the output: the raw text of seg
\* itself, or for an @media block a text that opens with the block's header
\* and closes with a brace
EmittedFor(text, seg) ==
  IF isMediaSegment(seg) /\ Includes(seg.raw, <<"{">>)
    THEN /\ StartsWith(text, Slice(seg.raw, 0, IndexOf(seg.raw, <<"{">>, 0) + 1), 0)
         /\ text[Len(text)] = "}"
    ELSE text = seg.raw

\* kept[i..] are given, one each and in this order, by segments among
\* segs[k..]
RECURSIVE EmitsInOrder(_, _, _, _)
EmitsInOrder(kept, i, segs, k) ==
  IF i > Len(kept) THEN TRUE
  ELSE IF k > Len(segs) THEN FALSE
  ELSE \/ EmittedFor(kept[i], segs[k]) /\ EmitsInOrder(kept, i + 1, segs, k + 1)
       \/ EmitsInOrder(kept, i, segs, k + 1)

\* C13: the output file is the kept texts joined by one empty line; the
\* kept texts come one each from different segments, in the order of these
\* segments in the stylesheet; a segment that is not an @media block gives
\* its raw text unchanged; every segment is counted as kept or as skipped,
\* and there are as many kept texts as kept segments
C13_OutputKeepsOrder ==
  Built =>
    /\ outFile = Join(keptRules, <<"\n", "\n">>)
    /\ Len(keptRules) = keptCount
    /\ keptCount + skippedCount = Len(segments)
    /\ EmitsInOrder(keptRules, 1, segments, 1)

\* a build kept two different texts and skipped a segment
C13_Witness ==
  /\ Built
  /\ keptCount >= 2 /\ skippedCount >= 1
  /\ keptRules[1] # keptRules[2]

C15_InjectFalseStopsAutoInit ==
  ~config.inject =>
    /\ initPc = "waiting"
    /\ ~fullCSS.set
    /\ ~styleTag.set

\* the raw texts of the rules of text whose selector has no class token:
\* those at top level, and those inside @media blocks
TopElementRules(text) ==
  LET segs == tokenize(text)
  IN  { segs[k].raw : k \in { j \in DOMAIN segs :
                                /\ segs[j].type = "rule"
                                /\ ClassMatches(segs[j].selector) = <<>> } }

MediaElementRules(text) ==
  LET segs == tokenize(text)
      innerOf(raw) ==
        InnerRulesFrom(SliceButLast(raw, IndexOf(raw, <<"{">>, 0) + 1), 0)
  IN  UNION { { r.raw : r \in { q \in Range(innerOf(segs[k].raw)) :
                                   ClassMatches(q.selector) = <<>> } } :
              k \in { j \in DOMAIN segs : isMediaSegment(segs[j]) } }

\* C16: with keepBase false, the base block that init() got from the
\* stylesheet contains no rule of the stylesheet whose selector has no
\* class token, neither one from the top level nor one from inside an
\* @media block
C16_KeepBaseFalseDropsElementRules ==
  (~config.keepBase /\ cssRules.set) =>
    \A r \in TopElementRules(fullCSS.val) \cup MediaElementRules(fullCSS.val) :
      ~Includes(baseRules, r)

\* C17: a step of the process in watch mode after its initial build, that
\* is, the handling of a change of the stylesheet or of a scanned file,
\* leaves the process in watch mode
C17_WatchNeverExits ==
  [][cliPc = "watching" => cliPc' = "watching"]_vars

\* C18: every segment of a build whose text starts with "@import" or with
\* "@charset" is an import segment that ends at the first ";" after its
\* start, or has no ";" and runs to the end of the stylesheet; so no such
\* segment holds the rule that follows the statement
C18_ImportAndCharsetAreImportSegments ==
  Built =>
    \A k \in DOMAIN segments :
      (\/ StartsWith(segments[k].raw, AT_IMPORT, 0)
       \/ StartsWith(segments[k].raw, AT_CHARSET, 0)) =>
        /\ segments[k].type = "import"
        /\ IndexOf(segments[k].raw, <<";">>, 0)
             \in { -1, Len(segments[k].raw) - 1 }

\* the inner rules of the @media block raw
InnerRulesOf(raw) ==
  InnerRulesFrom(SliceButLast(raw, IndexOf(raw, <<"{">>, 0) + 1), 0)

\* the rule segments, and the inner rules of @media blocks, whose selector
\* matches a base pattern and has class tokens
BaseWithClassTop(segs) ==
  { k \in DOMAIN segs : /\ segs[k].type = "rule"
                        /\ isBaseElement(segs[k].selector)
                        /\ ClassMatches(segs[k].selector) # <<>> }

BaseWithClassInner(seg) ==
  { r \in Range(InnerRulesOf(seg.raw)) : /\ isBaseElement(r.selector)
                                        /\ ClassMatches(r.selector) # <<>> }

\* C19: whatever classes are in use, a build keeps the raw text of every
\* rule whose selector matches a base pattern, and keeps, inside the
\* re-emitted block, every inner rule of an @media block whose selector
\* matches a base pattern; class tokens in such a selector change nothing
C19_BaseBeforeClassUsage ==
  Built =>
    /\ \A k \in DOMAIN segments :
         (segments[k].type = "rule" /\ isBaseElement(segments[k].selector))
           => \E j \in DOMAIN keptRules : keptRules[j] = segments[k].raw
    /\ \A k \in DOMAIN segments :
         isMediaSegment(segments[k]) =>
           \A r \in Range(InnerRulesOf(segments[k].raw)) :
             isBaseElement(r.selector) =>
               \E j \in DOMAIN keptRules :
                 /\ StartsWith(keptRules[j], AT_MEDIA, 0)
                 /\ Includes(keptRules[j], NL \o r.raw \o NL)

\* no class is in use, and the stylesheet has a rule and an inner rule of
\* an @media block with a base selector that names a class
C19_Witness ==
  /\ Built /\ cssPresent
  /\ usedClasses = {}
  /\ BaseWithClassTop(segments) # {}
  /\ \E k \in DOMAIN segments :
       isMediaSegment(segments[k]) /\ BaseWithClassInner(segments[k]) # {}

\* the segments of a build that are @keyframes blocks
KeyframesOf(segs) ==
  { k \in DOMAIN segs : /\ segs[k].type = "at-rule"
                        /\ StartsWith(segs[k].raw, AT_KEYFRAME, 0) }

Flushes == frameCallbacks' = frameCallbacks - 1

\* C21: a flush with the stylesheet loaded appends, for every pending class
\* that was not injected before it and has rules in the map, the rule texts
\* of that class, all of them and in the order of the map's array
C21_FlushAppendsPendingRules ==
  [][(Flushes /\ cssRules.set /\ styleTag.set) =>
       \A k \in DOMAIN pendingClasses :
         (/\ ~SetHas(injectedClasses, pendingClasses[k])
          /\ pendingClasses[k] \in DOMAIN cssRules.val) =>
           /\ styleTag'.set
           /\ Includes(Appended, NL \o Join(cssRules.val[pendingClasses[k]], NL))]_vars

\* the class names that occur as tokens in the selectors of the rules of
\* text, at top level and inside @media blocks
NamesInRules(text) ==
  LET segs == tokenize(text)
  IN  UNION ({ Range(ClassMatches(segs[k].selector)) :
                 k \in { j \in DOMAIN segs : segs[j].type = "rule" } }
             \cup { Range(ClassMatches(r.selector)) :
                      r \in UNION { Range(InnerRulesOf(segs[k].raw)) :
                                      k \in { j \in DOMAIN segs :
                                                isMediaSegment(segs[j]) } } })

\* the rules of text whose selector names class c: the top-level ones by
\* their segment, the inner ones by their segment and place in the block
RulesNaming(text, c) ==
  LET segs == tokenize(text)
  IN  { <<k, 0>> : k \in { j \in DOMAIN segs :
                             /\ segs[j].type = "rule"
                             /\ c \in Range(ClassMatches(segs[j].selector)) } }
      \cup UNION { { <<k, i>> : i \in { n \in DOMAIN InnerRulesOf(segs[k].raw) :
                          c \in Range(ClassMatches(InnerRulesOf(segs[k].raw)[n].selector)) } } :
                   k \in { j \in DOMAIN segs : isMediaSegment(segs[j]) } }

\* C22: the map that parseCSS made of the loaded stylesheet has an entry for
\* exactly the class names that occur as tokens in selectors, and the entry
\* of a class holds one rule text for each rule whose selector names the
\* class, however often the selector names it
C22_RegisteredOncePerClass ==
  cssRules.set =>
    /\ DOMAIN cssRules.val = NamesInRules(fullCSS.val)
    /\ \A c \in DOMAIN cssRules.val :
         Len(cssRules.val[c]) = Cardinality(RulesNaming(fullCSS.val, c))

\* C23: whatever classes are in use, a build keeps the raw text of every
\* top-level rule whose selector is one of the element names of the array
\* baseElements
C23_ListedElementsAreBase ==
  Built =>
    \A k \in DOMAIN segments :
      (segments[k].type = "rule" /\ segments[k].selector \in baseElements)
        => \E j \in DOMAIN keptRules : keptRules[j] = segments[k].raw

\* the text of the runtime's style element after init() has loaded css on
\* a page with no classes and the classes of `order` were injected; no
\* text when parseCSS threw
RuntimeTextAfter(css, order, keepBase) ==
  LET parsed == parseCSS(css, keepBase)
  IN  IF parsed.threw THEN <<>>
      ELSE injectClasses(order, [cssRules        |-> Some(parsed.map),
                                 injectedClasses |-> <<>>,
                                 styleTag        |-> Some(parsed.base)]).styleTag.val

\* rule text `rule` is one of the texts that were joined by line breaks
\* into text
HasText(text, rule) == Includes(NL \o text \o NL, NL \o rule \o NL)

\* a selector with a class token that matches no base pattern
ClassScoped(selector) ==
  ClassMatches(selector) # <<>> /\ ~isBaseElement(selector)

\* the block of segment text raw is closed by its own brace
ClosedBlock(raw) ==
  ExtractBlock(raw, IndexOf(raw, <<"{">>, 0)) = Len(raw) - 1

\* C24: for the stylesheet and the used classes U of a build, and for the
\* runtime with either value of keepBase after it loaded the same stylesheet
\* and injected exactly U in any order: a top-level rule whose selector is
\* class-scoped is in the build's output iff its text is in the runtime's
\* style element, and an inner rule of a closed @media block whose selector
\* is class-scoped is in the re-emitted block iff its text wrapped in the
\* block's header is in the runtime's style element
C24_CliAndRuntimeAgree ==
  (Built /\ cssPresent) =>
    \A keepBase \in BOOLEAN, order \in Orderings(usedClasses) :
      \E text \in { RuntimeTextAfter(cssFile, order, keepBase) } :
        \A k \in DOMAIN segments :
          /\ (segments[k].type = "rule" /\ ClassScoped(segments[k].selector)) =>
               ((\E j \in DOMAIN keptRules : keptRules[j] = segments[k].raw)
                  <=> HasText(text, segments[k].raw))
          /\ (isMediaSegment(segments[k]) /\ ClosedBlock(segments[k].raw)) =>
               \E header \in { Slice(segments[k].raw, 0,
                                     IndexOf(segments[k].raw, <<"{">>, 0) + 1) } :
                 \A r \in Range(InnerRulesOf(segments[k].raw)) :
                   (ClassScoped(r.selector) /\ ClosedBlock(r.raw)) =>
                     ((\E j \in DOMAIN keptRules :
                         /\ StartsWith(keptRules[j], header, 0)
                         /\ Includes(keptRules[j], NL \o r.raw \o NL))
                        <=> HasText(text, wrapMedia(header, r.raw)))

\* C25: the base block that parseCSS makes, with keepBase true, of the
\* stylesheet of a build contains every rule of the stylesheet whose
\* selector has no class token, the top-level ones and the ones inside
\* @media blocks, whether or not the selector matches baseSelectors
C25_KeepBaseKeepsEveryClasslessRule ==
  (Built /\ cssPresent) =>
    \E parsed \in { parseCSS(cssFile, TRUE) } :
      ~parsed.threw =>
        /\ \A r \in TopElementRules(cssFile) : HasText(parsed.base, r)
        /\ \A r \in MediaElementRules(cssFile) : Includes(parsed.base, r)

\* in runtime state st, every class of `classes` is injected and every rule
\* text the map has for one of them is in the style element
InjectedWithRules(classes, st) ==
  \A k \in DOMAIN classes :
    /\ SetHas(st.injectedClasses, classes[k])
    /\ classes[k] \in DOMAIN cssRules.val =>
         \A n \in DOMAIN cssRules.val[classes[k]] :
           /\ st.styleTag.set
           /\ HasText(st.styleTag.val, cssRules.val[classes[k]][n])

\* C26: in every state with the stylesheet loaded and parsed, a call of
\* StyleJIT.inject that returns leaves every class it names injected and
\* every rule text of these classes in the style element, with no frame in
\* between
C26_ManualInjectIsSynchronous ==
  cssRules.set =>
    \A arg \in ApiArgs :
      \E r \in { injectClasses(asArray(arg), rtState) } :
        ~r.threw => InjectedWithRules(asArray(arg), r)

\* C27: once init() has put the base block in the style element, every
\* step leaves the element in place with a text that begins with the text
\* it had before the step
C27_StyleTextAppendOnly ==
  [][(cssRules.set /\ styleTag.set) =>
       /\ styleTag'.set
       /\ StartsWith(styleTag'.val, styleTag.val, 0)]_vars

\* rules of two classes were appended, one after the other, to a base block
\* that is not empty
C27_Witness ==
  /\ cssRules.set /\ styleTag.set
  /\ baseRules # <<>>
  /\ Len(injectedClasses) >= 2
  /\ \E c \in DOMAIN cssRules.val, d \in DOMAIN cssRules.val :
       /\ c # d
       /\ StartsWith(styleTag.val, baseRules \o NL \o Join(cssRules.val[c], NL)
                                     \o NL \o Join(cssRules.val[d], NL), 0)

\* the fetch is in flight or has failed
NotLoaded == initPc \in { "fetching", "failed" }

\* a call of injectClasses(classes) in the current state returns and leaves
\* injectedClasses and the style element as they are
CallChangesNothing(classes) ==
  \E r \in { injectClasses(classes, rtState) } :
    /\ ~r.threw
    /\ r.injectedClasses = injectedClasses
    /\ r.styleTag = styleTag

\* C28: while the fetch is in flight or has failed, every call of
\* StyleJIT.inject and of StyleJIT.rescan leaves the runtime state as it
\* is, no step changes injectedClasses, pendingClasses or the style element,
\* there is no style element, and getInjected() and getAvailable() are empty
C28_ApiInertUntilLoaded ==
  /\ [](NotLoaded =>
          /\ \A arg \in ApiArgs : CallChangesNothing(asArray(arg))
          /\ \A domClasses \in Orderings(dom) : CallChangesNothing(domClasses)
          /\ getInjected = <<>> /\ getAvailable = {}
          /\ pendingClasses = <<>> /\ ~styleTag.set)
  /\ [][(NotLoaded /\ initPc' = initPc) =>
          UNCHANGED <<injectedClasses, pendingClasses, styleTag>>]_vars

\* the fetch is in flight on a page whose document carries two classes
C28_Witness ==
  initPc = "fetching" /\ Cardinality(dom) >= 2

\* injectClasses(classes), called in the current state, leaves the injected
\* classes the earlier ones united with classes, and leaves the style
\* element as it is when none of the classes it adds has an entry in the map
InjectAddsAll(classes) ==
  \E r \in { injectClasses(classes, rtState) } :
    /\ Range(r.injectedClasses) = Range(injectedClasses) \cup Range(classes)
    /\ (\A c \in Range(classes) \ Range(injectedClasses) :
          c \notin DOMAIN cssRules.val)
         => r.styleTag = styleTag

\* C29: in every state with the stylesheet loaded, an injection of classes,
\* by StyleJIT.inject, by StyleJIT.rescan or by a flush of the pending
\* classes, makes getInjected() the earlier classes united with the given
\* ones, whether they have rules or not, and leaves the text of the style
\* element alone if no class it adds has an entry in the map
C29_InjectAddsExactlyTheGivenClasses ==
  (cssRules.set /\ styleTag.set) =>
    /\ \A arg \in ApiArgs : InjectAddsAll(asArray(arg))
    /\ \A domClasses \in Orderings(dom) : InjectAddsAll(domClasses)
    /\ InjectAddsAll(pendingClasses)

\* the pending classes that were injected before the flush, by a call of
\* the public API, and have rules
PendingYetInjected ==
  { c \in Range(pendingClasses) :
      SetHas(injectedClasses, c) /\ c \in DOMAIN cssRules.val }

\* what a flush has to append when the pending classes that are injected
\* already count for nothing: the rule texts of the other pending classes,
\* in order, after a line break
AppendForNewPending ==
  LET isNew(c) == ~SetHas(injectedClasses, c) /\ c \in DOMAIN cssRules.val
      news     == SelectSeq(pendingClasses, isNew)
      rules    == Concat([k \in DOMAIN news |-> cssRules.val[news[k]]])
  IN  IF rules = <<>> THEN <<>> ELSE NL \o Join(rules, NL)

\* C30: a flush that finds pending classes that a call of the public API
\* has injected in the meantime appends to the style element what the other
\* pending classes bring and nothing for these, adds no class but the
\* pending ones to the injected classes, and leaves no class pending
C30_FlushSkipsManuallyInjected ==
  [][(Flushes /\ cssRules.set /\ styleTag.set /\ PendingYetInjected # {}) =>
       /\ pendingClasses' = <<>>
       /\ styleTag'.set
       /\ Appended = AppendForNewPending
       /\ Range(injectedClasses') = Range(injectedClasses) \cup Range(pendingClasses)]_vars

\* C31: the output of a build, built again with the same used classes,
\* gives the same output text
C31_BuildIsFixpointOnOutput ==
  (Built /\ cssPresent) =>
    buildResult(outFile, usedClasses).output = outFile

====
